---------------------------- MODULE Spec2Model ----------------------------
(***************************************************************************)
(* A model of music-converter-cli: the conversion policy                   *)
(* (MusicConverter.needs_conversion), the per-file pipeline                *)
(* (MusicConverter.process_file) and the batch loop of main() that fans    *)
(* the files out over a ThreadPoolExecutor and collects the results.       *)
(*                                                                         *)
(* Spec is the whole run of main(): validation, scan, preview, the worker  *)
(* pool running process_file concurrently, statistics, report and return;  *)
(* FairSpec is Spec with every call returning and every thread scheduled.  *)
(* InPlaceSpec is the run of main() whose target directory is the source   *)
(* directory.  Three more specifications apply one part to inputs drawn    *)
(* from bounded sets: PolicySpec the three arguments of needs_conversion,  *)
(* FileSpec process_file on one file, StatsSpec the statistics and the     *)
(* report of main().                                                       *)
(***************************************************************************)
EXTENDS Integers, Sequences, FiniteSets, TLC

VARIABLES
    \* ---- the policy call (PolicySpec) ----
    p_info,          \* the AudioInfo argument: [codec, bitrate]
    p_codec,         \* the target_codec argument
    p_bitrate,       \* the target_bitrate argument (kbps)
    p_decision,      \* "pending", or the returned "convert" / "copy"
    \* ---- main() and the pool (Spec, FairSpec, FileSpec, StatsSpec) ----
    main_pc,         \* position of the main thread
    target_dir,      \* the directory --target names ("source": the source directory itself)
    source_kind,     \* what is at the --source path: "missing", "file" or "dir"
    main_exc,        \* the exception that left main()'s try block ("none": none)
    dry_run,         \* --dry-run
    target_codec,    \* chosen codec
    target_bitrate,  \* chosen bitrate (kbps)
    num_threads,     \* max_workers of the ThreadPoolExecutor
    audio_files,     \* the sorted list scan_directory() returned
    fpc,             \* per submitted file: state of its future
    fres,            \* per file: <<r>>, the value (or exception) held by the future
    decision,        \* per file: needs_conversion_result of process_file
    fs_dirs,         \* directories that exist under (and including) target_dir
    fs_files,        \* files the run has written: [path, src (source index), size]
    ops,             \* external operations performed so far: <<kind, file>>
    commands,        \* per file: the argument vector handed to subprocess.run
    metadata_calls,  \* per file: number of metadata_handler.apply_metadata calls
    cur,             \* the future the main thread is handling (0: none)
    cur_result,      \* <<r>>: the result the main thread is about to append
    results,         \* the list `results` of main()
    completed_count, \* the progress counter of main()
    notified,        \* the counts shown by progress.update, in the order of the calls
    warnings,        \* files for which ui.show_warning reported a metadata failure
    stats,           \* <<d>>: the statistics dictionary shown in the summary
    report,          \* <<r>>: the results the report lists and the statistics it shows
    exit_code        \* return value of main() (None while running)

policy_vars == <<p_info, p_codec, p_bitrate, p_decision>>

batch_vars == <<main_pc, target_dir, notified, warnings, source_kind, main_exc, dry_run, target_codec,
                target_bitrate, num_threads, audio_files, fpc, fres, decision,
                fs_dirs, fs_files, ops, commands, metadata_calls, cur, cur_result,
                results, completed_count, stats, report, exit_code>>

vars == <<policy_vars, batch_vars>>

-----------------------------------------------------------------------------
(* Values *)

\* Optional[int] / Optional[str] absent
None == -1

\* str.lower() on the codec names the model uses
Lower(s) ==
    CASE s = "MP3"  -> "mp3"
      [] s = "AAC"  -> "aac"
      [] s = "FLAC" -> "flac"
      [] OTHER      -> s

Abs(x) == IF x < 0 THEN -x ELSE x

\* AudioInfo (only the two fields the policy reads)
AudioInfo(codec, bitrate) == [codec |-> codec, bitrate |-> bitrate]

-----------------------------------------------------------------------------
(* The conversion policy *)

\* the literal list tested against the source codec
LossySourceList == {"mp3", "aac", "mp3", "wma", "ogg"}

\* the literal list tested against the target codec
LossyTargetList == {"mp3", "aac", "opus", "wma", "ogg"}

\* bitrate_diff_percent < 10, where
\*   bitrate_diff_percent = abs(source - target_bps) / source * 100 if source > 0 else 0
\* For integer arguments the float expression is below 10 exactly when
\* abs(source - target_bps) * 100 < 10 * source.
WithinTolerance(source_bitrate, target_bitrate_bps) ==
    IF source_bitrate > 0
    THEN Abs(source_bitrate - target_bitrate_bps) * 100 < 10 * source_bitrate
    ELSE TRUE

\* A policy whose answer depends on converter state: convert once a result
\* has been collected
needs_conversion_stateful(audio_info, tcodec, tbitrate) ==
    Len(results) > 0

\* A policy that applies the 10% tolerance to same-codec sources as well
needs_conversion_tolerant(audio_info, tcodec, tbitrate) ==
    LET source_codec == Lower(audio_info.codec)
        source_bitrate == IF audio_info.bitrate # None /\ audio_info.bitrate # 0
                          THEN audio_info.bitrate ELSE 0
        target_bitrate_bps == tbitrate * 1000
    IN  IF source_codec # Lower(tcodec)
        THEN IF source_codec = "flac" THEN TRUE
             ELSE IF source_codec \in LossySourceList /\ Lower(tcodec) \in LossyTargetList
                  THEN ~WithinTolerance(source_bitrate, target_bitrate_bps)
                  ELSE TRUE
        ELSE IF source_bitrate > target_bitrate_bps
             THEN ~WithinTolerance(source_bitrate, target_bitrate_bps)
             ELSE FALSE

\* A policy whose last branch (other codec mismatch) copies instead of converting
needs_conversion_mismatch_copies(audio_info, tcodec, tbitrate) ==
    LET source_codec == Lower(audio_info.codec)
        source_bitrate == IF audio_info.bitrate # None /\ audio_info.bitrate # 0
                          THEN audio_info.bitrate ELSE 0
        target_bitrate_bps == tbitrate * 1000
    IN  IF source_codec # Lower(tcodec)
        THEN IF source_codec = "flac" THEN TRUE
             ELSE IF source_codec \in LossySourceList /\ Lower(tcodec) \in LossyTargetList
                  THEN ~WithinTolerance(source_bitrate, target_bitrate_bps)
                  ELSE FALSE
        ELSE source_bitrate > target_bitrate_bps

\* A policy that compares same-codec bitrates with >= instead of >
needs_conversion_geq(audio_info, tcodec, tbitrate) ==
    LET source_codec == Lower(audio_info.codec)
        source_bitrate == IF audio_info.bitrate # None /\ audio_info.bitrate # 0
                          THEN audio_info.bitrate ELSE 0
        target_bitrate_bps == tbitrate * 1000
    IN  IF source_codec # Lower(tcodec)
        THEN IF source_codec = "flac" THEN TRUE
             ELSE IF source_codec \in LossySourceList /\ Lower(tcodec) \in LossyTargetList
                  THEN ~WithinTolerance(source_bitrate, target_bitrate_bps)
                  ELSE TRUE
        ELSE source_bitrate >= target_bitrate_bps

\* A policy that upsamples: a same-codec source below the target is re-encoded
needs_conversion_upsample(audio_info, tcodec, tbitrate) ==
    LET source_codec == Lower(audio_info.codec)
        source_bitrate == IF audio_info.bitrate # None /\ audio_info.bitrate # 0
                          THEN audio_info.bitrate ELSE 0
        target_bitrate_bps == tbitrate * 1000
    IN  IF source_codec # Lower(tcodec)
        THEN IF source_codec = "flac" THEN TRUE
             ELSE IF source_codec \in LossySourceList /\ Lower(tcodec) \in LossyTargetList
                  THEN ~WithinTolerance(source_bitrate, target_bitrate_bps)
                  ELSE TRUE
        ELSE source_bitrate # target_bitrate_bps

\* MusicConverter.needs_conversion: TRUE = convert, FALSE = copy
needs_conversion(audio_info, tcodec, tbitrate) ==
    LET source_codec == Lower(audio_info.codec)
        source_bitrate == IF audio_info.bitrate # None /\ audio_info.bitrate # 0
                          THEN audio_info.bitrate ELSE 0
        target_bitrate_bps == tbitrate * 1000
    IN  IF source_codec # Lower(tcodec)
        THEN \* codec does not match
             IF source_codec = "flac"
             THEN TRUE
             ELSE IF source_codec \in LossySourceList /\ Lower(tcodec) \in LossyTargetList
                  THEN ~WithinTolerance(source_bitrate, target_bitrate_bps)
                  ELSE TRUE
        ELSE \* same codec: bitrate alone
             IF source_bitrate > target_bitrate_bps THEN TRUE
             ELSE IF source_bitrate < target_bitrate_bps THEN FALSE
             ELSE FALSE

DecisionName(b) == IF b THEN "convert" ELSE "copy"

-----------------------------------------------------------------------------
(* The scanned files.  scan_directory() returns a sorted list of paths;
   audio_files[i] of the model is the i-th file of that list: its path
   relative to source_dir, what ffprobe reports for it, and its size. *)

\* most files a scan returns
MaxFiles == 2

\* most worker threads
MaxWorkers == 2

\* A relative path is [dir, name]: dir is the sequence of directory names,
\* name the file name cut before each of its dots, so that the last of two or
\* more parts is the suffix: a.live.mp3 is <<"a", ".live", ".mp3">>.

\* a directory with a.flac, a.mp3, d/3.mp3, d/4.mp3, ...; the tags of a.flac
\* cannot be carried over to an output (apply_metadata returns False)
MixedTree(i) ==
    [rel  |-> [dir  |-> IF i <= 2 THEN << >> ELSE <<"d">>,
               name |-> IF i = 1 THEN <<"a", ".flac">>
                        ELSE IF i = 2 THEN <<"a", ".mp3">>
                        ELSE <<ToString(i), ".mp3">>],
     info |-> IF i = 1 THEN AudioInfo("flac", 900000)
              ELSE IF i = 2 THEN AudioInfo("mp3", 192000)
              ELSE AudioInfo("mp3", 320000),
     size |-> 4 + i,
     tags |-> i # 1]

\* an album d/1.mp3, d/2.mp3, ... of tracks encoded alike
AlbumTree(i) ==
    [rel  |-> [dir |-> <<"d">>, name |-> <<ToString(i), ".mp3">>],
     info |-> AudioInfo("mp3", 192000),
     size |-> 4 + i,
     tags |-> TRUE]

\* the lists scan_directory() may return: the first n files of a tree, in
\* sorted order (none when the directory holds no audio file)
ScannedLists ==
    UNION {{[i \in 1..n |-> MixedTree(i)], [i \in 1..n |-> AlbumTree(i)]} : n \in 0..MaxFiles}

Files == 1..Len(audio_files)

total_files == Len(audio_files)

\* input_path.relative_to(self.source_dir)
RelativePath(i) == audio_files[i].rel

SourcePath(i) == [root |-> "source"] @@ RelativePath(i)

\* what get_audio_info returns for file i when the probe succeeds
ProbedInfo(i) == audio_files[i].info

\* st_size of source file i
SourceSize(i) == audio_files[i].size

\* what metadata_handler.apply_metadata returns for the output of file i
MetadataApplies(i) == audio_files[i].tags

\* size of the output ffmpeg writes for source file i
EncodedSize(i) == 3

\* MusicConverter.FORMAT_EXTENSIONS.get(target_codec.lower(), f'.{target_codec}')
FORMAT_EXTENSIONS(codec) ==
    CASE Lower(codec) = "mp3"  -> ".mp3"
      [] Lower(codec) = "aac"  -> ".m4a"
      [] Lower(codec) = "flac" -> ".flac"
      [] Lower(codec) = "opus" -> ".opus"
      [] OTHER -> "." \o codec

\* PurePath.with_suffix(ext) on a file name: the last suffix is replaced, or
\* the extension added to a name that has no suffix
with_suffix(name, ext) ==
    IF Len(name) > 1 THEN SubSeq(name, 1, Len(name) - 1) \o <<ext>>
    ELSE name \o <<ext>>

\* an output path that drops the directories of the relative path
OutputPath_flat(i, codec) ==
    [root |-> target_dir, dir |-> << >>,
     name |-> with_suffix(RelativePath(i).name, FORMAT_EXTENSIONS(codec))]

\* output_path = target_dir / relative_path.with_suffix(target_ext)
OutputPath(i, codec) ==
    [root |-> target_dir, dir |-> RelativePath(i).dir,
     name |-> with_suffix(RelativePath(i).name, FORMAT_EXTENSIONS(codec))]

\* the directories output_path.parent.mkdir(parents=True) makes exist: the
\* parent and every ancestor of it down from target_dir
ParentDirs(path) == {SubSeq(path.dir, 1, k) : k \in 0..Len(path.dir)}

RECURSIVE Concat(_)
\* the strings of a sequence joined
Concat(parts) == IF parts = << >> THEN "" ELSE parts[1] \o Concat(Tail(parts))

\* str(path)
PathStr(path) ==
    path.root \o Concat([k \in 1..Len(path.dir) |-> "/" \o path.dir[k]])
              \o "/" \o Concat(path.name)

\* f'{target_bitrate}k'
BitrateArg(tbitrate) == ToString(tbitrate) \o "k"

\* a command builder that leaves the overwrite flag out
build_ffmpeg_command_no_overwrite(input_path, output_path, tcodec, tbitrate) ==
    [raises |-> Lower(tcodec) \notin {"mp3", "aac", "flac", "opus"},
     cmd |-> IF Lower(tcodec) \notin {"mp3", "aac", "flac", "opus"} THEN << >>
             ELSE <<"ffmpeg", "-i", PathStr(input_path), "-c:a", Lower(tcodec),
                    "-map_metadata", "0", PathStr(output_path)>>]

\* MusicConverter.build_ffmpeg_command: the argument vector, or the
\* ValueError raised for a codec that is none of mp3, aac, flac, opus
build_ffmpeg_command(input_path, output_path, tcodec, tbitrate) ==
    LET base_cmd == <<"ffmpeg", "-i", PathStr(input_path), "-y">>
        codec == Lower(tcodec)
        cmd == CASE codec = "mp3"  -> base_cmd \o <<"-c:a", "libmp3lame", "-b:a", BitrateArg(tbitrate)>>
                 [] codec = "aac"  -> base_cmd \o <<"-c:a", "aac", "-b:a", BitrateArg(tbitrate)>>
                                               \o <<"-c:v", "copy">>
                 [] codec = "flac" -> base_cmd \o <<"-c:a", "flac", "-compression_level", "8">>
                 [] codec = "opus" -> base_cmd \o <<"-c:a", "libopus", "-b:a", BitrateArg(tbitrate)>>
                 [] OTHER -> << >>
    IN  IF codec \notin {"mp3", "aac", "flac", "opus"}
        THEN [raises |-> TRUE, cmd |-> << >>]
        ELSE [raises |-> FALSE,
              cmd |-> cmd \o <<"-map_metadata", "0">>
                          \o (IF codec = "aac" THEN <<"-movflags", "+faststart", "-f", "mp4">>
                              ELSE << >>)
                          \o <<PathStr(output_path)>>]

\* error_message of a successful result
NoMessage == "<None>"

\* str(e) of the exceptions the model raises
ProbeError == "Failed to analyze audio file"
OSErrorText == "OSError"
UnsupportedText(tcodec) == "Unsupported target codec: " \o tcodec

\* dataclass ConversionResult
ConversionResult(source_path, target_path, action, source_size, target_size, source_format, error_message) ==
    [source_path |-> source_path, target_path |-> target_path, action |-> action,
     source_size |-> source_size, target_size |-> target_size,
     source_format |-> source_format, error_message |-> error_message]

\* the exception a future holds when process_file raised
RaisedException(msg) ==
    ConversionResult(0, 0, "exception", 0, 0, {}, msg)

-----------------------------------------------------------------------------
(* The filesystem: the scanned source files, and what the run has written *)

\* the scanned files as they are when the run starts
SourceFiles ==
    {[path |-> SourcePath(i), src |-> i, size |-> SourceSize(i)] : i \in Files}

\* what a stat sees: the files written by the run, and the scanned files that
\* no write has replaced
Disk(files) ==
    files \cup {s \in SourceFiles : \A e \in files : e.path # s.path}

FileAt(path) == {e \in fs_files : e.path = path}

\* writing `path` with content made from source file i replaces what was there
WriteFile(path, i, size) ==
    (fs_files \ FileAt(path)) \cup {[path |-> path, src |-> i, size |-> size]}

\* MusicConverter.get_file_size when stat does not raise an error other than
\* FileNotFoundError: st_size, or 0 on FileNotFoundError
get_file_size(files, path) ==
    IF \E e \in files : e.path = path
    THEN (CHOOSE e \in files : e.path = path).size
    ELSE 0

-----------------------------------------------------------------------------
(* MusicConverter.get_statistics *)

RECURSIVE SumField(_, _)
SumField(rs, field) ==
    IF rs = << >> THEN 0 ELSE rs[1][field] + SumField(Tail(rs), field)

CountAction(rs, a) == Cardinality({i \in 1..Len(rs) : rs[i].action = a})

\* A percentage is kept as the exact fraction num / den (den > 0), so that
\* nothing is lost to rounding; the number 0 is 0 / 1.
Fraction(num, den) == [num |-> num, den |-> den]

\* (space_saved / total_source_size * 100) if total_source_size > 0 else 0
PercentOf(saved, total) ==
    IF total > 0 THEN Fraction(saved * 100, total) ELSE Fraction(0, 1)

\* statistics whose space_saved is the growth: target minus source
get_statistics_growth(rs) ==
    LET total_source_size == SumField(rs, "source_size")
        total_target_size == SumField(rs, "target_size")
        space_saved == total_target_size - total_source_size
    IN  [total |-> Len(rs),
         converted |-> CountAction(rs, "converted"),
         copied |-> CountAction(rs, "copied"),
         errors |-> CountAction(rs, "error"),
         total_source_size |-> total_source_size,
         total_target_size |-> total_target_size,
         space_saved |-> space_saved,
         space_saved_percentage |-> PercentOf(space_saved, total_source_size)]

\* MusicConverter.get_statistics over self.results = rs; an empty list gives
\* the empty dictionary
get_statistics(rs) ==
    IF rs = << >> THEN << >>
    ELSE
    LET total_source_size == SumField(rs, "source_size")
        total_target_size == SumField(rs, "target_size")
        space_saved == total_source_size - total_target_size
    IN  [total |-> Len(rs),
         converted |-> CountAction(rs, "converted"),
         copied |-> CountAction(rs, "copied"),
         errors |-> CountAction(rs, "error"),
         total_source_size |-> total_source_size,
         total_target_size |-> total_target_size,
         space_saved |-> space_saved,
         space_saved_percentage |-> PercentOf(space_saved, total_source_size)]

\* the literal dictionary main() uses when `results` is empty
EmptyStats ==
    [total |-> 0, converted |-> 0, copied |-> 0, errors |-> 0,
     total_source_size |-> 0, total_target_size |-> 0, space_saved |-> 0,
     space_saved_percentage |-> Fraction(0, 1)]

\* the statistics main() shows: get_statistics of a non-empty result list,
\* the literal dictionary otherwise
main_statistics(rs) == IF rs # << >> THEN get_statistics(rs) ELSE EmptyStats

-----------------------------------------------------------------------------
(* ReportGenerator._calculate_statistics *)

\* statistics that leave the failed files out of the byte totals
_calculate_statistics_successful(results_) ==
    LET total == Len(results_)
        errors == CountAction(results_, "error")
        done == SelectSeq(results_, LAMBDA r : r.action # "error")
        original_size == SumField(done, "source_size")
        final_size == SumField(done, "target_size")
        space_saved == original_size - final_size
    IN  [total |-> total,
         converted |-> CountAction(results_, "converted"),
         copied |-> CountAction(results_, "copied"),
         errors |-> errors,
         original_size |-> original_size,
         final_size |-> final_size,
         space_saved |-> space_saved,
         space_saved_percent |-> PercentOf(space_saved, original_size),
         success_rate |-> PercentOf(total - errors, total)]

\* ReportGenerator._calculate_statistics(results)
_calculate_statistics(results_) ==
    LET total == Len(results_)
        errors == CountAction(results_, "error")
        original_size == SumField(results_, "source_size")
        final_size == SumField(results_, "target_size")
        space_saved == original_size - final_size
    IN  [total |-> total,
         converted |-> CountAction(results_, "converted"),
         copied |-> CountAction(results_, "copied"),
         errors |-> errors,
         original_size |-> original_size,
         final_size |-> final_size,
         space_saved |-> space_saved,
         space_saved_percent |-> PercentOf(space_saved, original_size),
         success_rate |-> PercentOf(total - errors, total)]

\* what ReportGenerator.generate_report writes to report_path: the listed
\* results and the statistics of _build_report_content
ReportContent(results_) ==
    [results |-> results_, statistics |-> _calculate_statistics(results_)]

-----------------------------------------------------------------------------
(* Spec: main() and the worker pool *)

\* (target_codec, target_bitrate) pairs of the batch runs
BatchTargets == {<<"mp3", 192>>, <<"flac", 0>>}

\* the state when main() is entered with --target naming directory `dir`
BatchInit(dir) ==
    /\ p_info = AudioInfo("mp3", None)
    /\ p_codec = "mp3"
    /\ p_bitrate = 0
    /\ p_decision = "pending"
    /\ main_pc = "validate"
    /\ target_dir = dir
    /\ source_kind \in {"missing", "file", "dir"}
    /\ main_exc = "none"
    /\ dry_run \in BOOLEAN
    /\ \E t \in BatchTargets : target_codec = t[1] /\ target_bitrate = t[2]
    /\ num_threads \in 1..MaxWorkers
    /\ audio_files \in ScannedLists
    /\ source_kind # "dir" => audio_files = << >>
    /\ fpc = [i \in 1..Len(audio_files) |-> "queued"]
    /\ fres = [i \in 1..Len(audio_files) |-> << >>]
    /\ decision = [i \in 1..Len(audio_files) |-> "none"]
    /\ fs_dirs = {}
    /\ fs_files = {}
    /\ ops = {}
    /\ commands = [i \in 1..Len(audio_files) |-> << >>]
    /\ metadata_calls = [i \in 1..Len(audio_files) |-> 0]
    /\ cur = 0
    /\ cur_result = << >>
    /\ results = << >>
    /\ completed_count = 0
    /\ stats = << >>
    /\ report = << >>
    /\ notified = << >>
    /\ warnings = {}
    /\ exit_code = None

\* a run whose target directory is apart from the source directory
Init == BatchInit("target")

\* source_path.exists() / source_path.is_dir(): anything but a directory is
\* an error and main() returns 1
ValidateSource ==
    /\ main_pc = "validate"
    /\ IF source_kind = "dir"
       THEN main_pc' = "scan" /\ UNCHANGED exit_code
       ELSE main_pc' = "exit" /\ exit_code' = 1
    /\ UNCHANGED <<policy_vars, target_dir, notified, warnings,
                   source_kind, main_exc, dry_run, target_codec,
                   target_bitrate, num_threads, audio_files, fpc, fres, decision,
                   fs_dirs, fs_files, ops, commands, metadata_calls, cur, cur_result,
                   results, completed_count, stats, report>>

\* audio_files = converter.scan_directory(); with no audio file main()
\* returns 0
ScanDirectory ==
    /\ main_pc = "scan"
    /\ IF audio_files = << >>
       THEN main_pc' = "exit" /\ exit_code' = 0
       ELSE main_pc' = "preview" /\ UNCHANGED exit_code
    /\ UNCHANGED <<policy_vars, target_dir, notified, warnings,
                   source_kind, main_exc, dry_run, target_codec,
                   target_bitrate, num_threads, audio_files, fpc, fres, decision,
                   fs_dirs, fs_files, ops, commands, metadata_calls, cur, cur_result,
                   results, completed_count, stats, report>>

\* The preferences and ui.show_conversion_preview: with --codec / --bitrate
\* and no --force there is no prompt; otherwise the user answers
\* 'Start conversion?', and on "no" the preview calls sys.exit(0), which
\* neither `except` clause of main() catches
ShowPreview ==
    /\ main_pc = "preview"
    /\ \/ \* no prompt, or the user confirms
          /\ main_pc' = "create_target"
          /\ UNCHANGED exit_code
       \/ \* the user declines
          /\ main_pc' = "exit"
          /\ exit_code' = 0
    /\ UNCHANGED <<policy_vars, target_dir, notified, warnings,
                   source_kind, main_exc, dry_run, target_codec,
                   target_bitrate, num_threads, audio_files, fpc, fres, decision,
                   fs_dirs, fs_files, ops, commands, metadata_calls, cur, cur_result,
                   results, completed_count, stats, report>>

\* the executor exists and its threads run submitted work: from the submit
\* loop until the `with ThreadPoolExecutor` block has been left
PoolRunning == main_pc \in {"wait", "append", "progress", "aborting"}

\* Ctrl-C: KeyboardInterrupt is raised in the main thread, at a prompt or
\* while it waits in as_completed for the next future.  Outside the pool `except KeyboardInterrupt`
\* returns 1 at once; inside, the exception first leaves the
\* `with ThreadPoolExecutor` block (see MainAbort).
Interrupt ==
    /\ main_exc' = "KeyboardInterrupt"
    /\ \/ /\ main_pc = "preview"
          /\ main_pc' = "exit"
          /\ exit_code' = 1
       \/ /\ main_pc = "wait"
          /\ main_pc' = "aborting"
          /\ UNCHANGED exit_code
    /\ UNCHANGED <<policy_vars, target_dir, notified, warnings,
                   source_kind, dry_run, target_codec,
                   target_bitrate, num_threads, audio_files, fpc, fres, decision,
                   fs_dirs, fs_files, ops, commands, metadata_calls, cur, cur_result,
                   results, completed_count, stats, report>>

\* a pool thread is running process_file on file g
Running(g) == fpc[g] \in {"acting", "measuring"}

\* converter.create_target_directory(), then the pool is created and every
\* file submitted; an OSError from mkdir reaches main()'s `except Exception`
CreateTargetDirectory ==
    /\ main_pc = "create_target"
    /\ \/ /\ fs_dirs' = fs_dirs \cup {<< >>}
          /\ main_pc' = "wait"
          /\ UNCHANGED <<main_exc, exit_code>>
       \/ /\ main_pc' = "exit"
          /\ main_exc' = "Exception"
          /\ exit_code' = 1
          /\ UNCHANGED fs_dirs
    /\ UNCHANGED <<policy_vars, target_dir, notified, warnings,
                   source_kind, dry_run, target_codec,
                   target_bitrate, num_threads, audio_files, fpc, fres, decision,
                   fs_files, ops, commands, metadata_calls, cur, cur_result,
                   results, completed_count, stats, report>>

\* the `except Exception` handler of process_file: it builds the error result,
\* calling get_file_size(input_path); an error other than FileNotFoundError
\* from that stat leaves process_file as an exception
Handler(f, msg, files) ==
    \/ /\ fpc' = [fpc EXCEPT ![f] = "done"]
       /\ fres' = [fres EXCEPT ![f] =
             << ConversionResult(SourcePath(f), SourcePath(f), "error",
                    get_file_size(Disk(files), SourcePath(f)), 0, {}, msg) >>]
    \/ /\ fpc' = [fpc EXCEPT ![f] = "raised"]
       /\ fres' = [fres EXCEPT ![f] = << RaisedException(OSErrorText) >>]

\* A pool thread takes the next queued file and runs process_file up to the
\* decision: probe, source size, output path, mkdir of the parent directories,
\* needs_conversion.
ProcessFileBegin(f) ==
    /\ PoolRunning
    /\ fpc[f] = "queued"
    /\ \A g \in Files : g < f => fpc[g] # "queued"
    /\ Cardinality({g \in Files : Running(g)}) < num_threads
    /\ \/ \* get_audio_info raises
          /\ Handler(f, ProbeError, fs_files)
          /\ UNCHANGED <<decision, fs_dirs, ops>>
       \/ \* stat of the source, or mkdir, raises
          /\ Handler(f, OSErrorText, fs_files)
          /\ UNCHANGED <<decision, fs_dirs, ops>>
       \/ \* the parents exist now and the decision is taken
          /\ fs_dirs' = fs_dirs \cup ParentDirs(OutputPath(f, target_codec))
          /\ ops' = ops \cup {<<"mkdir", f>>}
          /\ decision' = [decision EXCEPT ![f] =
                DecisionName(needs_conversion(ProbedInfo(f), target_codec, target_bitrate))]
          /\ fpc' = [fpc EXCEPT ![f] = "acting"]
          /\ UNCHANGED fres
    /\ UNCHANGED <<policy_vars, target_dir, notified, warnings,
                   main_pc, source_kind, main_exc, dry_run,
                   target_codec, target_bitrate, num_threads, audio_files,
                   fs_files, commands, metadata_calls, cur, cur_result, results,
                   completed_count, stats, report, exit_code>>

\* source_format of a result built on the normal path
SourceFormat(f) == {ProbedInfo(f)}

\* a result that measures the output of a failed operation too and carries
\* no message
BuiltResult_measured_always(f, success, files) ==
    LET convert == decision[f] = "convert"
        out == OutputPath(f, target_codec)
    IN  ConversionResult(
            SourcePath(f), out,
            IF success THEN (IF convert THEN "converted" ELSE "copied") ELSE "error",
            SourceSize(f), get_file_size(files, out), SourceFormat(f), NoMessage)

\* the result process_file builds after convert_file / copy_file returned
BuiltResult(f, success, files) ==
    LET convert == decision[f] = "convert"
        out == OutputPath(f, target_codec)
    IN  ConversionResult(
            SourcePath(f), out,
            IF success THEN (IF convert THEN "converted" ELSE "copied") ELSE "error",
            SourceSize(f),
            IF success THEN get_file_size(files, out) ELSE 0,
            SourceFormat(f),
            IF success THEN NoMessage
            ELSE (IF convert THEN "Conversion failed" ELSE "Copy failed"))

\* process_file from the decision on: convert_file (which builds the ffmpeg
\* command first) or copy_file.  When the operation reports success the
\* output is measured next; when it reports failure the error result is built
\* without a stat.
ProcessFileAct(f) ==
    /\ fpc[f] = "acting"
    /\ LET convert == decision[f] = "convert"
           out == OutputPath(f, target_codec)
           kind == IF convert THEN "encode" ELSE "copy"
           size == IF convert THEN EncodedSize(f) ELSE SourceSize(f)
           built == build_ffmpeg_command(SourcePath(f), out, target_codec, target_bitrate)
       IN  IF convert /\ built.raises
           THEN \* ValueError from build_ffmpeg_command: nothing is run
                /\ Handler(f, UnsupportedText(target_codec), fs_files)
                /\ UNCHANGED <<fs_files, ops, commands>>
           ELSE /\ commands' = IF convert THEN [commands EXCEPT ![f] = built.cmd]
                               ELSE commands
                /\ \/ \* ffmpeg exits 0, or shutil.copy2 returns: success is True
                      \* (ffmpeg refuses an output that is its input, and
                      \* copy2 raises SameFileError)
                      /\ out # SourcePath(f)
                      /\ fs_files' = WriteFile(out, f, size)
                      /\ ops' = ops \cup {<<kind, f>>}
                      /\ fpc' = [fpc EXCEPT ![f] = "measuring"]
                      /\ UNCHANGED fres
                   \/ \* ffmpeg exits non-zero, or shutil.copy2 raises: success is False
                      /\ ops' = ops \cup {<<kind, f>>}
                      /\ fpc' = [fpc EXCEPT ![f] = "done"]
                      /\ fres' = [fres EXCEPT ![f] = << BuiltResult(f, FALSE, fs_files) >>]
                      /\ UNCHANGED fs_files
                   \/ \* subprocess.run itself raises (ffmpeg cannot be started)
                      /\ convert
                      /\ Handler(f, OSErrorText, fs_files)
                      /\ UNCHANGED <<fs_files, ops>>
    /\ UNCHANGED <<policy_vars, target_dir, notified, warnings,
                   main_pc, source_kind, main_exc, dry_run,
                   target_codec, target_bitrate, num_threads, audio_files,
                   decision, fs_dirs, metadata_calls, cur, cur_result, results,
                   completed_count, stats, report, exit_code>>

\* The end of process_file after a successful operation:
\* get_file_size(output_path) reads whatever is at the output path now, and
\* the result is built; a stat that raises goes to the handler.
ProcessFileMeasure(f) ==
    /\ fpc[f] = "measuring"
    /\ \/ /\ fpc' = [fpc EXCEPT ![f] = "done"]
          /\ fres' = [fres EXCEPT ![f] = << BuiltResult(f, TRUE, fs_files) >>]
       \/ Handler(f, OSErrorText, fs_files)
    /\ UNCHANGED <<policy_vars, target_dir, notified, warnings,
                   main_pc, source_kind, main_exc, dry_run,
                   target_codec, target_bitrate, num_threads, audio_files,
                   decision, fs_dirs, fs_files, ops, commands, metadata_calls,
                   cur, cur_result, results, completed_count, stats, report,
                   exit_code>>

\* a metadata call that takes the place of the one of main() for a result
\* that is no error
apply_metadata_unless_error(result) == result.action # "error" /\ ~dry_run

\* `if result.action == 'converted' and not dry_run:` guarding
\* metadata_handler.apply_metadata(result.source_path, result.target_path)
NeedsMetadata(result) == result.action = "converted" /\ ~dry_run

\* a main() that turns the result of a file whose metadata could not be
\* applied into an error
AfterMetadata_fatal(result, applied) ==
    IF NeedsMetadata(result) /\ ~applied
    THEN ConversionResult(result.source_path, result.source_path, "error",
                          result.source_size, 0, {}, "Metadata failed")
    ELSE result

\* the result main() appends after the metadata step: the one process_file
\* returned, whatever apply_metadata answered
AfterMetadata(result, applied) == result

\* as_completed yields a finished future; main() takes its result, applies the
\* metadata to a converted file unless dry_run, or, when the future raised,
\* builds the error result (get_file_size may raise again, and that
\* exception leaves the loop for main()'s outer handler)
MainTake(f) ==
    /\ main_pc = "wait"
    /\ cur = 0
    /\ fpc[f] \in {"done", "raised"}
    /\ fpc' = [fpc EXCEPT ![f] = "yielded"]
    /\ \/ /\ fpc[f] = "done"
          /\ ops' = IF NeedsMetadata(fres[f][1])
                    THEN ops \cup {<<"metadata", f>>} ELSE ops
          /\ metadata_calls' = IF NeedsMetadata(fres[f][1])
                               THEN [metadata_calls EXCEPT ![f] = @ + 1]
                               ELSE metadata_calls
          /\ warnings' = IF NeedsMetadata(fres[f][1]) /\ ~MetadataApplies(f)
                         THEN warnings \cup {f} ELSE warnings
          /\ cur' = f
          /\ cur_result' = << AfterMetadata(fres[f][1], MetadataApplies(f)) >>
          /\ main_pc' = "append"
          /\ UNCHANGED main_exc
       \/ /\ fpc[f] = "raised"
          /\ cur' = f
          /\ cur_result' = << ConversionResult(SourcePath(f), SourcePath(f), "error",
                                 get_file_size(Disk(fs_files), SourcePath(f)),
                                 0, {}, fres[f][1].error_message) >>
          /\ main_pc' = "append"
          /\ UNCHANGED <<ops, metadata_calls, warnings, main_exc>>
       \/ /\ fpc[f] = "raised"
          /\ main_pc' = "aborting"
          /\ main_exc' = "Exception"
          /\ UNCHANGED <<cur, cur_result, ops, metadata_calls, warnings>>
    /\ UNCHANGED <<policy_vars, target_dir, notified,
                   source_kind, dry_run, target_codec,
                   target_bitrate, num_threads, audio_files, fres, decision,
                   fs_dirs, fs_files, commands, results, completed_count, stats,
                   report, exit_code>>

\* results.append(result) / results.append(error_result)
MainAppend ==
    /\ main_pc = "append"
    /\ results' = Append(results, cur_result[1])
    /\ cur_result' = << >>
    /\ main_pc' = "progress"
    /\ UNCHANGED <<policy_vars, target_dir, notified, warnings,
                   source_kind, main_exc, dry_run, target_codec,
                   target_bitrate, num_threads, audio_files, fpc, fres, decision,
                   fs_dirs, fs_files, ops, commands, metadata_calls, cur,
                   completed_count, stats, report, exit_code>>

\* a loop that ends as soon as one future has been yielded
OneYielded == \E g \in Files : fpc[g] = "yielded"

\* as_completed(future_to_file) is exhausted: every submitted future has been
\* yielded
AllYielded == \A g \in Files : fpc[g] = "yielded"

\* a progress display that shows the number of files still to come
ProgressCount_remaining(count) == total_files - count

\* the count in description=f"Processing ({completed_count}/{total_files})"
ProgressCount(count) == count

\* with progress_lock: completed_count += 1; progress.update(...); then the
\* loop goes on, or ends when every future has been yielded
MainProgress ==
    /\ main_pc = "progress"
    /\ completed_count' = completed_count + 1
    /\ notified' = Append(notified, ProgressCount(completed_count'))
    /\ cur' = 0
    /\ main_pc' = IF AllYielded THEN "stats" ELSE "wait"
    /\ UNCHANGED <<policy_vars, target_dir, warnings,
                   source_kind, main_exc, dry_run, target_codec,
                   target_bitrate, num_threads, audio_files, fpc, fres, decision,
                   fs_dirs, fs_files, ops, commands, metadata_calls, cur_result,
                   results, stats, report, exit_code>>

\* statistics and summary
MainStats ==
    /\ main_pc = "stats"
    /\ stats' = << main_statistics(results) >>
    /\ main_pc' = "report"
    /\ UNCHANGED <<policy_vars, target_dir, notified, warnings,
                   source_kind, main_exc, dry_run, target_codec,
                   target_bitrate, num_threads, audio_files, fpc, fres, decision,
                   fs_dirs, fs_files, ops, commands, metadata_calls, cur,
                   cur_result, results, completed_count, report, exit_code>>

\* a main() that writes the report in a dry run too
ReportWanted_always == TRUE

\* `if not dry_run:` guarding reporter.generate_report
ReportWanted == ~dry_run

\* the report at target_path / 'conversion-report.md', unless dry_run, and
\* return 0; an OSError from creating or writing the file reaches main()'s
\* `except Exception`
MainReport ==
    /\ main_pc = "report"
    /\ main_pc' = "exit"
    /\ \/ /\ report' = IF ReportWanted THEN << ReportContent(results) >> ELSE report
          /\ exit_code' = 0
          /\ UNCHANGED main_exc
       \/ /\ ReportWanted
          /\ main_exc' = "Exception"
          /\ exit_code' = 1
          /\ UNCHANGED report
    /\ UNCHANGED <<policy_vars, target_dir, notified, warnings,
                   source_kind, dry_run, target_codec,
                   target_bitrate, num_threads, audio_files, fpc, fres, decision,
                   fs_dirs, fs_files, ops, commands, metadata_calls, cur,
                   cur_result, results, completed_count, stats>>

\* An exception left the loop: leaving the `with ThreadPoolExecutor` block
\* waits for every submitted file (shutdown(wait=True)), queued ones
\* included; then `except KeyboardInterrupt` or `except Exception` returns 1.
MainAbort ==
    /\ main_pc = "aborting"
    /\ \A g \in Files : fpc[g] # "queued" /\ ~Running(g)
    /\ exit_code' = 1
    /\ main_pc' = "exit"
    /\ UNCHANGED <<policy_vars, target_dir, notified, warnings,
                   source_kind, main_exc, dry_run, target_codec,
                   target_bitrate, num_threads, audio_files, fpc, fres, decision,
                   fs_dirs, fs_files, ops, commands, metadata_calls, cur,
                   cur_result, results, completed_count, stats, report>>

Next ==
    \/ ValidateSource
    \/ ScanDirectory
    \/ ShowPreview
    \/ Interrupt
    \/ CreateTargetDirectory
    \/ \E f \in Files : ProcessFileBegin(f)
    \/ \E f \in Files : ProcessFileAct(f)
    \/ \E f \in Files : ProcessFileMeasure(f)
    \/ \E f \in Files : MainTake(f)
    \/ MainAppend
    \/ MainProgress
    \/ MainStats
    \/ MainReport
    \/ MainAbort

Spec == Init /\ [][Next]_vars

\* Spec with every call returning and every thread scheduled: ffprobe, ffmpeg,
\* copy2, stat and the prompts return, the pool's threads and the main thread
\* keep running, so a step that can be taken is taken eventually
FairSpec == Init /\ [][Next]_vars /\ WF_vars(Next)

-----------------------------------------------------------------------------
(* PolicySpec: needs_conversion applied to arguments drawn from bounded sets *)

\* largest multiple of 4000 bps in the grid of source bitrates
MaxBitrateIndex == 80

\* codec names a probe may report (upper case included: the policy lowercases)
SourceCodecs == {"mp3", "aac", "opus", "wma", "ogg", "flac", "pcm_s16le", "MP3"}

\* target codecs: the four of the command line, and the two others the
\* policy's target list names
TargetCodecs == {"mp3", "aac", "flac", "opus", "wma", "ogg", "AAC"}

\* source bitrates in bits/sec: absent, a grid, and the values next to the
\* 10% boundaries of the targets below
SourceBitrates ==
    {None} \cup {k * 4000 : k \in 0..MaxBitrateIndex}
           \cup {174545, 174546, 195000, 213333, 213334, 250000, 900000}

\* target bitrates in kbps: 0 (interactive flac), the menu values, and 180 and
\* 198, for which 200000 and 180000 bps differ by exactly 10%
TargetBitrates == {0, 64, 128, 180, 192, 198, 320}

\* the batch does not run in PolicySpec
BatchIdle ==
    /\ main_pc = "idle"
    /\ target_dir = "target"
    /\ source_kind = "dir"
    /\ main_exc = "none"
    /\ dry_run = FALSE
    /\ target_codec = "mp3"
    /\ target_bitrate = 320
    /\ num_threads = 1
    /\ audio_files = << >>
    /\ fpc = << >>
    /\ fres = << >>
    /\ decision = << >>
    /\ fs_dirs = {}
    /\ fs_files = {}
    /\ ops = {}
    /\ commands = << >>
    /\ metadata_calls = << >>
    /\ cur = 0
    /\ cur_result = << >>
    /\ results = << >>
    /\ completed_count = 0
    /\ stats = << >>
    /\ report = << >>
    /\ notified = << >>
    /\ warnings = {}
    /\ exit_code = None

PolicyInit ==
    /\ p_info \in {AudioInfo(c, b) : c \in SourceCodecs, b \in SourceBitrates}
    /\ p_codec \in TargetCodecs
    /\ p_bitrate \in TargetBitrates
    /\ p_decision = "pending"
    /\ BatchIdle

\* one call of needs_conversion(p_info, p_codec, p_bitrate)
PolicyCall ==
    /\ p_decision = "pending"
    /\ p_decision' = DecisionName(needs_conversion(p_info, p_codec, p_bitrate))
    /\ UNCHANGED <<p_info, p_codec, p_bitrate, batch_vars>>

PolicyNext == PolicyCall

PolicySpec == PolicyInit /\ [][PolicyNext]_vars

-----------------------------------------------------------------------------
(* FileSpec: process_file run on one file, for relative paths, probe answers
   and target codecs drawn from bounded sets *)

\* relative paths: at the top, one and two directories down; names with one
\* suffix, with a dot before the suffix, with an upper-case suffix
FileRels ==
    {[dir |-> d, name |-> n] :
        d \in {<< >>, <<"d">>, <<"d", "e">>},
        n \in {<<"a", ".flac">>, <<"a", ".live", ".mp3">>, <<"a", ".MP3">>, <<"a", ".m4a">>}}

\* what the probe reports: a flac source, which every target converts, and
\* an mp3 source
FileInfos == {AudioInfo("flac", 900000), AudioInfo("mp3", 192000)}

\* (target_codec, target_bitrate): the four codecs, aac also at the bitrate
\* of the mp3 source, an upper-case spelling, and a codec
\* build_ffmpeg_command does not know
FileTargets ==
    {<<"mp3", 192>>, <<"aac", 256>>, <<"aac", 192>>, <<"flac", 0>>, <<"opus", 128>>,
     <<"AAC", 320>>, <<"wav", 192>>}

FileInit ==
    /\ p_info = AudioInfo("mp3", None)
    /\ p_codec = "mp3"
    /\ p_bitrate = 0
    /\ p_decision = "pending"
    /\ main_pc = "wait"
    /\ target_dir = "target"
    /\ source_kind = "dir"
    /\ main_exc = "none"
    /\ dry_run = FALSE
    /\ \E t \in FileTargets : target_codec = t[1] /\ target_bitrate = t[2]
    /\ num_threads = 1
    /\ audio_files \in {<<[rel |-> r, info |-> a, size |-> 5, tags |-> TRUE]>> : r \in FileRels, a \in FileInfos}
    /\ fpc = <<"queued">>
    /\ fres = << << >> >>
    /\ decision = <<"none">>
    /\ fs_dirs = {<< >>}
    /\ fs_files = {}
    /\ ops = {}
    /\ commands = << << >> >>
    /\ metadata_calls = <<0>>
    /\ cur = 0
    /\ cur_result = << >>
    /\ results = << >>
    /\ completed_count = 0
    /\ stats = << >>
    /\ report = << >>
    /\ notified = << >>
    /\ warnings = {}
    /\ exit_code = None

FileNext ==
    \/ \E f \in Files : ProcessFileBegin(f)
    \/ \E f \in Files : ProcessFileAct(f)
    \/ \E f \in Files : ProcessFileMeasure(f)

FileSpec == FileInit /\ [][FileNext]_vars

-----------------------------------------------------------------------------
(* StatsSpec: the statistics of main() computed over result collections drawn
   from a bounded set, and the collection put into another order *)

\* most results in a collection of StatsSpec
MaxResults == 2

\* sizes of the results of StatsSpec
StatSizes == {0, 4, 10}

\* results of every action, with sources of size 0 and outputs larger than
\* their source among them
StatResults ==
    {ConversionResult([root |-> "source", dir |-> << >>, name |-> <<"a", ".mp3">>],
                      [root |-> "target", dir |-> << >>, name |-> <<"a", ".mp3">>],
                      a, ss, IF a = "error" THEN 0 ELSE ts, {},
                      IF a = "error" THEN "Conversion failed" ELSE NoMessage) :
        a \in {"converted", "copied", "error"}, ss \in StatSizes, ts \in StatSizes}

StatsInit ==
    /\ p_info = AudioInfo("mp3", None)
    /\ p_codec = "mp3"
    /\ p_bitrate = 0
    /\ p_decision = "pending"
    /\ main_pc = "stats"
    /\ target_dir = "target"
    /\ source_kind = "dir"
    /\ main_exc = "none"
    /\ dry_run = FALSE
    /\ target_codec = "mp3"
    /\ target_bitrate = 320
    /\ num_threads = 1
    /\ audio_files = << >>
    /\ fpc = << >>
    /\ fres = << >>
    /\ decision = << >>
    /\ fs_dirs = {}
    /\ fs_files = {}
    /\ ops = {}
    /\ commands = << >>
    /\ metadata_calls = << >>
    /\ cur = 0
    /\ cur_result = << >>
    /\ results \in UNION {[1..n -> StatResults] : n \in 0..MaxResults}
    /\ completed_count = Len(results)
    /\ stats = << >>
    /\ report = << >>
    /\ notified = [i \in 1..Len(results) |-> ProgressCount(i)]
    /\ warnings = {}
    /\ exit_code = None

\* the same results collected in another completion order: two neighbours of
\* the list change places
StatsReorder ==
    /\ \E i \in 1..(Len(results) - 1) :
          /\ results[i] # results[i + 1]
          /\ results' = [results EXCEPT ![i] = results[i + 1], ![i + 1] = results[i]]
    /\ UNCHANGED <<policy_vars, target_dir, notified, warnings,
                   main_pc, source_kind, main_exc, dry_run,
                   target_codec, target_bitrate, num_threads, audio_files, fpc,
                   fres, decision, fs_dirs, fs_files, ops, commands,
                   metadata_calls, cur, cur_result, completed_count, stats,
                   report, exit_code>>

StatsNext == MainStats \/ MainReport \/ StatsReorder

StatsSpec == StatsInit /\ [][StatsNext]_vars

-----------------------------------------------------------------------------
(* Vocabulary of the policy claims, stated without needs_conversion *)

\* the lossy set of the specification
LossySet == {"mp3", "aac", "opus", "wma", "ogg"}

Decided == p_decision # "pending"
SrcCodec == Lower(p_info.codec)
TgtCodec == Lower(p_codec)
\* the source bitrate, an absent one counted as 0
SrcBps == IF p_info.bitrate = None THEN 0 ELSE p_info.bitrate
TgtBps == p_bitrate * 1000
BitrateKnown == p_info.bitrate # None /\ p_info.bitrate > 0
\* |sourceBitrate - targetBps| / sourceBitrate * 100 < 10
DiffUnderTenPercent == Abs(SrcBps - TgtBps) * 100 < 10 * SrcBps

\* C2: with equal source and target codec the decision follows the bitrate
\* alone: above the target converts, below copies, equal copies.
C2_SameCodecByBitrate ==
    (Decided /\ SrcCodec = TgtCodec) =>
        /\ (SrcBps > TgtBps => p_decision = "convert")
        /\ (SrcBps < TgtBps => p_decision = "copy")
        /\ (SrcBps = TgtBps => p_decision = "copy")

\* the three literal cases of C2 have been decided as stated
C2_Witness ==
    /\ Decided /\ p_info.codec = "mp3" /\ p_codec = "mp3"
    /\ \/ p_info.bitrate = 192000 /\ p_bitrate = 192 /\ p_decision = "copy"
       \/ p_info.bitrate = 320000 /\ p_bitrate = 192 /\ p_decision = "convert"
       \/ p_info.bitrate = 128000 /\ p_bitrate = 320 /\ p_decision = "copy"

\* C3 as the specification states it: a same-codec source above the target by
\* less than 10% (mp3 195000 bps against mp3/192) is copied.
C3_Original ==
    (Decided /\ SrcCodec = TgtCodec /\ SrcBps > TgtBps /\ DiffUnderTenPercent)
        => p_decision = "copy"

\* C3 amended: a same-codec source above the target by less than 10% is
\* converted like any other same-codec source above the target; the
\* tolerance is not applied when the codecs are equal.
C3_SameCodecNoTolerance ==
    (Decided /\ SrcCodec = TgtCodec /\ SrcBps > TgtBps /\ DiffUnderTenPercent)
        => p_decision = "convert"

\* mp3 at 195000 bps against mp3/192 has been decided: convert
C3_Witness ==
    /\ p_info = AudioInfo("mp3", 195000) /\ p_codec = "mp3" /\ p_bitrate = 192
    /\ p_decision = "convert"

\* C4 as the specification states it: for different codecs both in the lossy
\* set and a known positive source bitrate, copy exactly when the difference
\* relative to the source bitrate is strictly below 10%.
C4_Original ==
    (Decided /\ SrcCodec # TgtCodec /\ SrcCodec \in LossySet /\ TgtCodec \in LossySet
        /\ BitrateKnown)
        => (p_decision = "copy" <=> DiffUnderTenPercent)

\* C5: a codec mismatch that is not lossy-to-lossy always converts.
C5_OtherMismatchConverts ==
    (Decided /\ SrcCodec # TgtCodec
        /\ ~(SrcCodec \in LossySet /\ TgtCodec \in LossySet))
        => p_decision = "convert"

\* a source that is neither lossy nor flac, and mp3 -> flac, have been decided
C5_Witness ==
    /\ p_decision = "convert"
    /\ \/ p_info.codec = "pcm_s16le" /\ p_codec = "mp3"
       \/ p_info.codec = "mp3" /\ p_codec = "flac" /\ p_info.bitrate = 128000
       \/ p_info.codec = "flac" /\ p_codec = "mp3" /\ p_bitrate = 192

\* C6 as the specification states it: flac to flac is always copied.
C6_Original ==
    (Decided /\ SrcCodec = "flac" /\ TgtCodec = "flac") => p_decision = "copy"

\* C7 as the specification states it: a lossy source with a known bitrate
\* below the target is copied, whatever the target codec.
C7_Original ==
    (Decided /\ SrcCodec \in LossySet /\ BitrateKnown /\ SrcBps < TgtBps)
        => p_decision = "copy"

\* C7 amended: such a source is copied when the target codec is its own;
\* with a different target codec it is converted whenever the difference
\* is 10% of the source bitrate or more.
C7_NoUpsampleSameCodec ==
    (Decided /\ SrcCodec \in LossySet /\ BitrateKnown /\ SrcBps < TgtBps)
        => /\ (SrcCodec = TgtCodec => p_decision = "copy")
           /\ (SrcCodec # TgtCodec /\ ~DiffUnderTenPercent => p_decision = "convert")

\* a lossy source below the target has been decided, once for its own codec
\* and once across codecs
C7_Witness ==
    /\ p_info = AudioInfo("aac", 128000) /\ p_bitrate = 320
    /\ \/ p_codec = "aac" /\ p_decision = "copy"
       \/ p_codec = "mp3" /\ p_decision = "convert"

-----------------------------------------------------------------------------
(* Claims about the batch (Spec) *)

\* the results in the collection whose source is file f
ResultsOf(f) == {i \in 1..Len(results) : results[i].source_path = SourcePath(f)}

\* the batch loop of main() has been left, normally or by an exception (the
\* user did not interrupt it)
LoopEnded ==
    /\ main_exc # "KeyboardInterrupt"
    /\ \/ main_pc \in {"stats", "report", "aborting"}
       \/ main_pc = "exit" /\ Files # {} /\ \A f \in Files : fpc[f] # "queued"

\* C1: when the batch loop has ended the collection holds exactly one result
\* per submitted file, whatever the files' outcomes (an exception raised by
\* the worker included), and the statistics of the run satisfy
\* converted + copied + errors = total = N.
C1_Original ==
    LoopEnded =>
        /\ Len(results) = total_files
        /\ \A f \in Files : Cardinality(ResultsOf(f)) = 1
        /\ main_pc = "exit" =>
              /\ stats # << >>
              /\ stats[1].total = total_files
              /\ stats[1].converted + stats[1].copied + stats[1].errors = stats[1].total

\* C8: needs_conversion is a function of its arguments: two files with the
\* same AudioInfo get the same decision in one run, whenever and on whichever
\* worker they are decided, and the step that calls it leaves the result
\* list, the scanned list and the run's settings unchanged.
C8_SameArgumentsSameDecision ==
    \A f \in Files : \A g \in Files :
        (decision[f] # "none" /\ decision[g] # "none" /\ ProbedInfo(f) = ProbedInfo(g))
            => decision[f] = decision[g]

\* C8, frame part: a step in which a file's decision is taken leaves the result
\* list, the scanned list and the settings as they were.
C8_DecisionChangesNoState ==
    [][\A f \in Files :
          decision'[f] # decision[f] =>
              /\ results' = results
              /\ audio_files' = audio_files
              /\ <<target_codec, target_bitrate, dry_run>>' = <<target_codec, target_bitrate, dry_run>>]_vars

C9_Original ==
    dry_run =>
        /\ fs_dirs = {}
        /\ fs_files = {}
        /\ ops = {}

\* C10: process_file never lets an exception escape: no future ever holds an
\* exception, so the batch is never aborted by a file's failure.
C10_Original ==
    /\ \A f \in Files : fpc[f] # "raised"
    /\ ~(main_pc = "aborting" /\ main_exc = "Exception")

-----------------------------------------------------------------------------
(* Claims about the results of the batch *)

\* the result of file f was built by main() from the exception its future held
BuiltInMain(f) == fres[f] # << >> /\ fres[f][1].action = "exception"

\* C11: every result in the collection whose action is error has
\* target_size 0 and an error message, whichever way it was built (the
\* operation returned failure, process_file caught an exception, main() took
\* an exception from the future); every converted or copied result has no
\* error message.
C11_ErrorResultShape ==
    \A i \in 1..Len(results) :
        /\ results[i].action \in {"converted", "copied", "error"}
        /\ results[i].action = "error" =>
              /\ results[i].target_size = 0
              /\ results[i].error_message # NoMessage
        /\ results[i].action \in {"converted", "copied"} =>
              results[i].error_message = NoMessage

\* the collection holds an error result built by main() from a raised future
\* next to one process_file built itself
C11_Witness ==
    /\ \E f \in Files : BuiltInMain(f) /\ ResultsOf(f) # {}
    /\ \E g \in Files :
          /\ ~BuiltInMain(g)
          /\ \E i \in ResultsOf(g) :
                results[i].action = "error"
                /\ results[i].error_message \in {"Conversion failed", "Copy failed", ProbeError}

\* C12: when the batch finishes, every converted or copied result has a
\* target_size that is the size of a file existing at its target_path (a
\* success whose output is missing having been turned into an error with
\* target_size 0).
C12_Original ==
    main_pc = "exit" =>
        \A i \in 1..Len(results) :
            results[i].action \in {"converted", "copied"} =>
                \E e \in fs_files :
                    /\ e.path = results[i].target_path
                    /\ e.size = results[i].target_size

\* the size of the output file f's own operation writes: what a run with one
\* worker, in which no other file is processed meanwhile, measures for f
OwnOutputSize(f) == IF decision[f] = "convert" THEN EncodedSize(f) ELSE SourceSize(f)

\* C13: the results do not depend on the number of workers or on their
\* interleaving: with any worker count every file that is converted or copied
\* gets the result the one-worker run gives it (its own output's size), so
\* the multiset of results and the statistics are the same for 1, 4 or 16
\* workers.
C13_Original ==
    \A f \in Files :
        (fpc[f] \in {"done", "yielded"} /\ fres[f][1].action \in {"converted", "copied"})
            => fres[f][1].target_size = OwnOutputSize(f)

\* C14: in a batch that is no dry run the metadata propagation is called
\* exactly once for every file whose collected result is converted and never
\* for a copied or error result (never at all in a dry run); the call comes
\* after the file's conversion has finished, and it is done before the result
\* is appended to the collection and before the progress counter counts the
\* file.
C14_MetadataOncePerConverted ==
    \A f \in Files :
        /\ metadata_calls[f] <= 1
        /\ metadata_calls[f] = 1 =>
              /\ ~dry_run
              /\ <<"encode", f>> \in ops
              /\ fpc[f] = "yielded"
              /\ fres[f][1].action = "converted"
        /\ \A i \in ResultsOf(f) :
              metadata_calls[f] = IF results[i].action = "converted" /\ ~dry_run THEN 1 ELSE 0
        /\ (cur = f /\ main_pc \in {"append", "progress"}) =>
              metadata_calls[f] = IF fres[f][1].action = "converted" /\ ~dry_run THEN 1 ELSE 0

\* the collection of a real run holds a converted result whose file had its
\* one metadata call, and a copied or error result whose file had none
C14_Witness ==
    /\ ~dry_run
    /\ \E f \in Files : \E i \in ResultsOf(f) :
          results[i].action = "converted" /\ metadata_calls[f] = 1
    /\ \E g \in Files : \E j \in ResultsOf(g) :
          results[j].action \in {"copied", "error"} /\ metadata_calls[g] = 0

-----------------------------------------------------------------------------
(* Claims about the end of the batch *)

\* process_file has returned (or raised) for file f
UnitCompleted(f) == fpc[f] \in {"done", "raised", "yielded"}

\* main() has left the `with ThreadPoolExecutor` block it had entered (the
\* block is entered once create_target_directory() has made target_dir)
PoolLeft ==
    \/ main_pc \in {"stats", "report"}
    \/ main_pc = "exit" /\ << >> \in fs_dirs

\* the statistics are being computed or the report generated, or both are done
StatisticsTime == main_pc \in {"stats", "report"} \/ stats # << >>

\* C15, first safety part: the pool is left only after every unit completed
C15_PoolLeftAfterAllUnits == PoolLeft => \A f \in Files : UnitCompleted(f)

\* C15, second safety part: at statistics and report time all N results are
\* collected and counted
C15_AllCollectedAtStatistics ==
    StatisticsTime =>
        /\ Len(results) = total_files
        /\ \A f \in Files : ResultsOf(f) # {}
        /\ completed_count = total_files

\* C15: when every external call returns, main() eventually leaves the worker
\* pool and returns; it leaves the pool only after all N file-processing
\* units have completed; and when the statistics are computed and the report
\* is generated all N results are in the collection and the progress counter
\* equals N.
C15_TerminatesAfterAllUnits ==
    /\ <>(main_pc = "exit")
    /\ []C15_PoolLeftAfterAllUnits
    /\ []C15_AllCollectedAtStatistics

\* a batch of MaxFiles files has been through the pool: main() computed the
\* statistics of all of them and returned
C15_Witness ==
    /\ main_pc = "exit"
    /\ exit_code = 0
    /\ total_files = MaxFiles
    /\ stats # << >>
    /\ stats[1].total = MaxFiles

\* the user interrupted the batch (Ctrl-C while the pool was running)
BatchInterrupted == main_exc = "KeyboardInterrupt" /\ << >> \in fs_dirs

\* C16, first part: after the interrupt no file that had not been started is
\* begun.
C16_NoFileBegunAfterInterrupt ==
    [][BatchInterrupted => \A f \in Files : fpc[f] = "queued" => fpc'[f] = "queued"]_vars

\* C16, second part: the interrupted run exits with a report that preserves
\* the results collected so far, and every file a worker had started is
\* completed or marked error.
C16_InterruptedRunReports ==
    (BatchInterrupted /\ main_pc = "exit") =>
        /\ report = << ReportContent(results) >>
        /\ \A f \in Files : fpc[f] = "queued" \/ UnitCompleted(f)

\* C16: on an interrupt the workers in flight finish their current file, no
\* file that had not been started is begun after it, and the run exits with
\* a report that preserves the results collected so far; no file is left
\* half-converted.
C16_Original == C16_NoFileBegunAfterInterrupt /\ []C16_InterruptedRunReports

-----------------------------------------------------------------------------
(* Claims about the exit code *)

\* main() ended at the preview: the user answered no to 'Start conversion?'
UserDeclined ==
    /\ main_pc = "exit"
    /\ source_kind = "dir"
    /\ audio_files # << >>
    /\ main_exc = "none"
    /\ stats = << >>

\* C17: the exit code is 1 when the source directory is missing or no
\* directory, when the user cancels (declines the preview prompt, or
\* interrupts) and on an unexpected failure; it is 0 otherwise: on success,
\* and when no audio file is found.
C17_Original ==
    main_pc = "exit" =>
        exit_code = IF \/ source_kind # "dir"
                       \/ UserDeclined
                       \/ main_exc = "KeyboardInterrupt"
                       \/ main_exc = "Exception"
                    THEN 1 ELSE 0

-----------------------------------------------------------------------------
(* Claims about the statistics *)

RECURSIVE SumOfFirst(_, _, _)
\* the sum of a field over the first n results
SumOfFirst(rs, field, n) ==
    IF n = 0 THEN 0 ELSE SumOfFirst(rs, field, n - 1) + rs[n][field]

\* the number of results with action a
NumberOf(rs, a) == Cardinality({i \in DOMAIN rs : rs[i].action = a})

\* C18, aggregate part: the statistics shown are those of the collection as
\* it is now, in whatever order it is: total is the number of results, the
\* three counts are the numbers of converted, copied and error results and
\* add up to total, the two sizes are the sums over the results,
\* space_saved is their difference (negative when the outputs are larger),
\* and the percentage is space_saved / total_source_size * 100, or 0 when
\* total_source_size is 0.
C18_AggregateOfCollection ==
    stats # << >> =>
        LET d == stats[1]
        IN  /\ d.total = Len(results)
            /\ d.converted = NumberOf(results, "converted")
            /\ d.copied = NumberOf(results, "copied")
            /\ d.errors = NumberOf(results, "error")
            /\ d.converted + d.copied + d.errors = d.total
            /\ d.total_source_size = SumOfFirst(results, "source_size", Len(results))
            /\ d.total_target_size = SumOfFirst(results, "target_size", Len(results))
            /\ d.space_saved = d.total_source_size - d.total_target_size
            /\ d.space_saved_percentage.den > 0
            /\ IF d.total_source_size = 0
               THEN d.space_saved_percentage.num = 0
               ELSE d.space_saved_percentage.num * d.total_source_size
                        = d.space_saved * 100 * d.space_saved_percentage.den

\* C18, frame part: the step that computes the statistics leaves the result
\* collection as it was.
C18_ComputingChangesNoResult == [][stats' # stats => results' = results]_vars

\* C18: the aggregate is correct for every collection, computing it does not
\* change the collection, and it does not depend on the order of the results.
C18_Aggregate == []C18_AggregateOfCollection /\ C18_ComputingChangesNoResult

\* statistics with a negative space_saved have been computed for a full
\* collection that holds the error result of a source of size 0
C18_Witness ==
    /\ stats # << >>
    /\ stats[1].space_saved < 0
    /\ stats[1].total = MaxResults
    /\ stats[1].errors > 0
    /\ results[1].action = "error"
    /\ results[1].source_size = 0

-----------------------------------------------------------------------------
(* Claims about the output path and the ffmpeg command *)

\* the extension the specification maps each target codec to
MappedExtension(codec) ==
    CASE codec = "mp3"  -> ".mp3"
      [] codec = "aac"  -> ".m4a"
      [] codec = "flac" -> ".flac"
      [] codec = "opus" -> ".opus"

KnownCodec == Lower(target_codec) \in {"mp3", "aac", "flac", "opus"}

\* target root + the relative directories + the name with only its final
\* extension replaced
ExpectedOutput(f) ==
    LET name == RelativePath(f).name
    IN  [root |-> "target",
         dir  |-> RelativePath(f).dir,
         name |-> [k \in 1..Len(name) |->
                     IF k < Len(name) THEN name[k]
                     ELSE MappedExtension(Lower(target_codec))]]

\* every directory from the target root down to the parent of path exists
ParentsExist(path, dirs) == \A k \in 0..Len(path.dir) : SubSeq(path.dir, 1, k) \in dirs

\* the encode or copy of file f has run
OperationRan(f, done) == <<"encode", f>> \in done \/ <<"copy", f>> \in done

\* C19, path part: the output of a file is at the target root plus its
\* relative path with only the final extension replaced by the extension of
\* the target codec: what is written is written there, a successful result
\* names that path, and its parent directories exist once the operation ran.
C19_OutputPathMirrorsSource ==
    \A f \in Files :
        KnownCodec =>
            /\ \A e \in fs_files : e.src = f => e.path = ExpectedOutput(f)
            /\ (fres[f] # << >> /\ fres[f][1].action \in {"converted", "copied"})
                  => fres[f][1].target_path = ExpectedOutput(f)
            /\ OperationRan(f, ops) => ParentsExist(ExpectedOutput(f), fs_dirs)

\* C19, order part: when the encode or copy of a file starts, the parent
\* directories of its output exist already.
C19_ParentsBeforeOperation ==
    [][\A f \in Files :
          (KnownCodec /\ ~OperationRan(f, ops) /\ OperationRan(f, ops'))
              => ParentsExist(ExpectedOutput(f), fs_dirs)]_vars

\* C19: the output path mirrors the source's relative path under the target
\* root with only the final extension replaced by the mapped one, and missing
\* parent directories are created before the encode or copy runs.
C19_OutputPath == []C19_OutputPathMirrorsSource /\ C19_ParentsBeforeOperation

\* d/e/a.live.mp3 has been converted to aac: the output is d/e/a.live.m4a
\* under the target root, in directories process_file created
C19_Witness ==
    /\ Lower(target_codec) = "aac"
    /\ \E f \in Files :
          /\ RelativePath(f) = [dir |-> <<"d", "e">>, name |-> <<"a", ".live", ".mp3">>]
          /\ fpc[f] = "done"
          /\ fres[f][1].action = "converted"
          /\ fres[f][1].target_path =
                [root |-> "target", dir |-> <<"d", "e">>, name |-> <<"a", ".live", ".m4a">>]
          /\ <<"d", "e">> \in fs_dirs

\* the text of each bitrate argument of FileTargets
BitrateText(kbps) ==
    CASE kbps = 128 -> "128k"
      [] kbps = 192 -> "192k"
      [] kbps = 256 -> "256k"
      [] kbps = 320 -> "320k"
      [] OTHER -> "k"

\* the arguments sub occur in cmd, next to each other and in this order
HasArgs(cmd, sub) ==
    \E i \in 1..(Len(cmd) - Len(sub) + 1) : SubSeq(cmd, i, i + Len(sub) - 1) = sub

\* C20: the ffmpeg argument vector built for a conversion: mp3 uses
\* libmp3lame with '<bitrate>k'; aac uses aac with '<bitrate>k', copies the
\* video stream and adds +faststart and the mp4 container; flac uses flac
\* with compression level 8 and no bitrate flag; opus uses libopus with
\* '<bitrate>k'; every vector has the overwrite flag and '-map_metadata 0',
\* the input path right after '-i' and the output path last.  For any other
\* codec no command is built and run: the file ends as an error.
C20_CommandShape ==
    \A f \in Files :
        LET cmd == commands[f]
            codec == Lower(target_codec)
            rate == BitrateText(target_bitrate)
        IN  /\ cmd # << >> =>
                  /\ KnownCodec
                  /\ cmd[1] = "ffmpeg"
                  /\ HasArgs(cmd, <<"-i", PathStr(SourcePath(f))>>)
                  /\ HasArgs(cmd, <<"-y">>)
                  /\ HasArgs(cmd, <<"-map_metadata", "0">>)
                  /\ cmd[Len(cmd)] = PathStr(ExpectedOutput(f))
                  /\ codec = "mp3" =>
                        HasArgs(cmd, <<"-c:a", "libmp3lame">>) /\ HasArgs(cmd, <<"-b:a", rate>>)
                  /\ codec = "aac" =>
                        /\ HasArgs(cmd, <<"-c:a", "aac">>) /\ HasArgs(cmd, <<"-b:a", rate>>)
                        /\ HasArgs(cmd, <<"-c:v", "copy">>)
                        /\ HasArgs(cmd, <<"-movflags", "+faststart">>)
                        /\ HasArgs(cmd, <<"-f", "mp4">>)
                  /\ codec = "flac" =>
                        /\ HasArgs(cmd, <<"-c:a", "flac">>)
                        /\ HasArgs(cmd, <<"-compression_level", "8">>)
                        /\ ~HasArgs(cmd, <<"-b:a">>)
                  /\ codec = "opus" =>
                        HasArgs(cmd, <<"-c:a", "libopus">>) /\ HasArgs(cmd, <<"-b:a", rate>>)
                  /\ codec # "aac" => ~HasArgs(cmd, <<"-f">>) /\ ~HasArgs(cmd, <<"-c:v">>)
            /\ (<<"encode", f>> \in ops) => cmd # << >>
            /\ ~KnownCodec =>
                  /\ cmd = << >>
                  /\ (fpc[f] = "done" /\ decision[f] = "convert") =>
                        /\ fres[f][1].action = "error"
                        /\ fres[f][1].error_message # NoMessage

\* the command of d/e/a.flac converted to AAC at 320 kbps has been built and
\* handed to ffmpeg
C20_Witness ==
    \E f \in Files :
        /\ <<"encode", f>> \in ops
        /\ commands[f] = <<"ffmpeg", "-i", "source/d/e/a.flac", "-y",
                           "-c:a", "aac", "-b:a", "320k", "-c:v", "copy",
                           "-map_metadata", "0", "-movflags", "+faststart",
                           "-f", "mp4", "target/d/e/a.m4a">>

-----------------------------------------------------------------------------
(* The report *)

\* every submitted file has a result in the collection
AllCollected ==
    /\ Len(results) = total_files
    /\ \A f \in Files : ResultsOf(f) # {}

\* a report exists only of a run that is no dry run and has collected the
\* result of every file, and it lists the collection the shown statistics
\* were computed from
C21_ReportOnlyOfCollectedBatch ==
    report # << >> =>
        /\ ~dry_run
        /\ Files # {}
        /\ AllCollected
        /\ report[1].results = results
        /\ stats = << main_statistics(report[1].results) >>

\* the report is written by the step that ends a run, and a run that is no
\* dry run and returns 0 after its statistics has written it
C21_ReportWhenBatchFinished ==
    /\ (report # << >>) => main_pc = "exit"
    /\ (main_pc = "exit" /\ exit_code = 0 /\ stats # << >> /\ ~dry_run) => report # << >>

\* C21: the markdown report is written exactly when a batch that is no dry
\* run has finished collecting all results: never in a dry run, never before
\* the last file's result is collected, and from the same result collection
\* the statistics are computed from.
C21_Report == C21_ReportOnlyOfCollectedBatch /\ C21_ReportWhenBatchFinished

\* a run over MaxFiles files has written its report, which lists a converted
\* file
C21_Witness ==
    /\ report # << >>
    /\ Len(report[1].results) = MaxFiles
    /\ \E i \in 1..Len(results) : report[1].results[i].action = "converted"

-----------------------------------------------------------------------------
(* The progress counter *)

\* the counts notified so far are 1, 2, ..., one for each result collected
\* and counted, and never more than there are files
C22_NotifiedCountsInOrder ==
    /\ notified = [i \in 1..completed_count |-> i]
    /\ completed_count <= total_files
    /\ completed_count = IF main_pc = "progress" THEN Len(results) - 1 ELSE Len(results)
    /\ (main_pc \in {"stats", "report"} \/ stats # << >>) =>
           notified = [i \in 1..total_files |-> i]

\* a step that changes the counter adds one to it and notifies the new count
C22_AdvancesByOne ==
    [][completed_count' # completed_count =>
          /\ completed_count' = completed_count + 1
          /\ notified' = Append(notified, completed_count')]_vars

\* C22: the progress counter advances by exactly one per completed file and
\* the observer is notified with the new count each time: for N files the
\* notified counts are 1..N, strictly increasing, with no duplicate, gap or
\* out-of-order report under any completion order, and the counter never
\* exceeds N.
C22_Progress == []C22_NotifiedCountsInOrder /\ C22_AdvancesByOne

\* MaxFiles files completed in an order that is not the submission order, and
\* every count has been notified
C22_Witness ==
    /\ total_files = MaxFiles
    /\ Len(notified) = MaxFiles
    /\ results[1].source_path = SourcePath(MaxFiles)

-----------------------------------------------------------------------------
(* A source whose bitrate the probe does not report *)

\* C23 as the specification states it: with no bitrate reported (absent,
\* treated as 0) the decision is copy for every pair of different codecs of
\* the lossy set and every target bitrate, and copy for equal codecs and a
\* positive target bitrate: a lossy file of unknown bitrate is never
\* re-encoded into a lossy codec.
C23_Original ==
    (Decided /\ p_info.bitrate = None) =>
        /\ (SrcCodec # TgtCodec /\ SrcCodec \in LossySet /\ TgtCodec \in LossySet)
               => p_decision = "copy"
        /\ (SrcCodec = TgtCodec /\ p_bitrate > 0) => p_decision = "copy"
        /\ (SrcCodec \in LossySet /\ TgtCodec \in LossySet) => p_decision = "copy"

-----------------------------------------------------------------------------
(* The shape of an error result *)

\* the run has written an output from source file f
TargetProduced(f) == \E e \in fs_files : e.src = f

\* C24 as the specification states it: every result whose action is error
\* has an empty source_format and, when no target file was produced, a
\* target_path equal to its source_path, whether the error comes from an
\* exception or from an encode or copy operation that reports failure.
C24_Original ==
    \A f \in Files : \A i \in ResultsOf(f) :
        results[i].action = "error" =>
            /\ results[i].source_format = {}
            /\ ~TargetProduced(f) => results[i].target_path = results[i].source_path

-----------------------------------------------------------------------------
(* A metadata failure *)

\* the result process_file returned for file f
Returned(f) == fres[f][1]

\* a warning is shown exactly for the files whose metadata call answered
\* false, and the result of such a file goes to the collection as
\* process_file returned it: converted, with its measured size and no message
C25_ResultKeptOnMetadataFailure ==
    \A f \in Files :
        /\ f \in warnings <=> (metadata_calls[f] > 0 /\ ~MetadataApplies(f))
        /\ f \in warnings =>
              /\ Returned(f).action = "converted"
              /\ Returned(f).error_message = NoMessage
              /\ (cur = f /\ cur_result # << >>) => cur_result[1] = Returned(f)
              /\ (cur # f \/ main_pc = "progress") =>
                    \E i \in 1..Len(results) : results[i] = Returned(f)

\* the step that shows the warning raises nothing and goes on to the append,
\* and a run that ends without an exception has collected every file
C25_RunGoesOn ==
    /\ [][warnings' # warnings =>
            main_pc' = "append" /\ main_exc' = main_exc /\ exit_code' = exit_code]_vars
    /\ [](warnings # {} /\ main_pc = "exit" /\ main_exc = "none" => AllCollected)

\* C25: a metadata failure is not fatal: when apply_metadata returns false
\* for a converted file the result keeps action converted, its measured
\* target_size and no error message, a warning is shown, the result is still
\* appended, and the remaining files are still processed.
C25_MetadataFailureNotFatal == []C25_ResultKeptOnMetadataFailure /\ C25_RunGoesOn

\* the first collected result is a converted file whose metadata call
\* failed, and another file has been collected after it; the run returned 0
C25_Witness ==
    /\ Len(results) = MaxFiles
    /\ \E f \in warnings :
          /\ results[1] = Returned(f)
          /\ results[1].action = "converted"
          /\ results[1].target_size = EncodedSize(f)
    /\ \E g \in Files : g \notin warnings /\ results[MaxFiles].source_path = SourcePath(g)
    /\ main_pc = "exit" /\ exit_code = 0

-----------------------------------------------------------------------------
(* Fatal and non-fatal failures *)

\* the source path does not exist or is no directory
BadSource == source_kind # "dir"

\* a run with a bad source does nothing but return 1
C26_BadSourceFatalBeforeWork ==
    BadSource =>
        /\ main_pc \in {"validate", "exit"}
        /\ main_pc = "exit" => exit_code = 1
        /\ fs_dirs = {} /\ fs_files = {} /\ ops = {}
        /\ results = << >> /\ stats = << >> /\ report = << >>

\* the batch loop has been left by an exception that came from one file's
\* future
AbortedByFile ==
    /\ main_exc = "Exception"
    /\ \E f \in Files : fpc[f] = "yielded" /\ ResultsOf(f) = {} /\ cur # f

\* C26 as the specification states it: a bad source directory is fatal
\* before any work (exit 1, no target directory, no scan, probe or
\* processing, no report), and no failure of one file (probe, encode, copy,
\* metadata) aborts the run.
C26_Original == C26_BadSourceFatalBeforeWork /\ ~AbortedByFile

-----------------------------------------------------------------------------
(* Two sources, one output *)

\* the scan has returned its list
Scanned == main_pc \notin {"validate", "scan"}

\* C27 as the specification states it: no two file-processing units write the
\* same output file: distinct scanned sources map to distinct target paths,
\* no state has two workers encoding or copying to one target path, and the
\* target file of every successful result holds the output of its own source.
C27_Original ==
    /\ Scanned =>
          \A f, g \in Files :
              f # g => OutputPath(f, target_codec) # OutputPath(g, target_codec)
    /\ \A f, g \in Files :
          (f # g /\ Running(f) /\ Running(g))
              => OutputPath(f, target_codec) # OutputPath(g, target_codec)
    /\ main_pc = "exit" =>
          \A f \in Files : \A i \in ResultsOf(f) :
              results[i].action \in {"converted", "copied"} =>
                  \E e \in fs_files : e.path = results[i].target_path /\ e.src = f

-----------------------------------------------------------------------------
(* The extension of an output and the codec of its content *)

\* the codec of the content of a written file: a copy has the codec of its
\* source, an encode the target codec
ContentCodec(e) ==
    IF <<"copy", e.src>> \in ops THEN Lower(ProbedInfo(e.src).codec)
    ELSE Lower(target_codec)

\* the extension a path ends with
Extension(path) == path.name[Len(path.name)]

\* C28 as the specification states it: the extension of every output file
\* matches the codec of its content: a copy is stored under the extension of
\* the source's own codec, never under that of a different target codec (an
\* mp3 source within 10% of an aac target is not stored as .m4a).
C28_Original ==
    \A e \in fs_files :
        ContentCodec(e) \in {"mp3", "aac", "flac", "opus"}
            => Extension(e.path) = MappedExtension(ContentCodec(e))

-----------------------------------------------------------------------------
(* InPlaceSpec: main() run with --target naming the source directory *)

InPlaceInit == BatchInit("source") /\ source_kind = "dir"

InPlaceSpec == InPlaceInit /\ [][Next]_vars

\* the paths of the scanned source files
SourcePaths == {SourcePath(g) : g \in Files}

\* C29 as the specification states it: the batch never writes to a source
\* file: whatever the source and target directories (a target equal to the
\* source included) and whatever the decisions, no encode output, copy or
\* metadata write has a scanned source file as its destination.
C29_Original ==
    /\ \A e \in fs_files : e.path \notin SourcePaths
    /\ \A f \in Files :
          <<"metadata", f>> \in ops => OutputPath(f, target_codec) \notin SourcePaths

-----------------------------------------------------------------------------
(* The statistics of the summary and of the report *)

\* C30: for every non-empty result collection get_statistics and
\* ReportGenerator._calculate_statistics return the same total, converted,
\* copied and error counts, the same source and target byte totals, the same
\* space saved and the same space-saved percentage.
C30_SameStatistics ==
    (results # << >> /\ stats # << >> /\ report # << >>) =>
        LET shown == stats[1]
            written == report[1].statistics
        IN  /\ shown.total = written.total
            /\ shown.converted = written.converted
            /\ shown.copied = written.copied
            /\ shown.errors = written.errors
            /\ shown.total_source_size = written.original_size
            /\ shown.total_target_size = written.final_size
            /\ shown.space_saved = written.space_saved
            /\ shown.space_saved_percentage = written.space_saved_percent

\* both have been computed over MaxResults results, a failed file with a
\* source of positive size among them, whose outputs are larger than the
\* sources
C30_Witness ==
    /\ stats # << >> /\ report # << >>
    /\ Len(results) = MaxResults
    /\ \E i \in 1..Len(results) : results[i].action = "error" /\ results[i].source_size > 0
    /\ report[1].statistics.space_saved < 0
    /\ report[1].statistics.space_saved_percent.num < 0

=============================================================================
